---- MODULE Spec2Model ----
(***************************************************************************)
(* A model of the aiospotify client library.                               *)
(*                                                                         *)
(*   - HTTPClient (spotify/http.py): the request / rate-limit / refresh    *)
(*     loop of HTTPClient.request and HTTPClient.refresh_token, one step   *)
(*     per suspension point of the coroutine.                              *)
(*   - Client.add_tracks (spotify/client.py) with grouper                  *)
(*     (spotify/utils.py).                                                 *)
(*   - Playlist.fetch_tracks (spotify/models/playlist.py).                 *)
(*   - Scopes (spotify/oauth/scopes.py), Route (spotify/utils.py),         *)
(*     Activity (spotify/models/playback.py), Image                        *)
(*     (spotify/models/image.py) and the exception classes                 *)
(*     (spotify/errors.py).                                                *)
(*                                                                         *)
(* Durations (Retry-After, sleeps, max_ratelimit_timeout) are in seconds.  *)
(***************************************************************************)
EXTENDS Integers, Sequences, FiniteSets, TLC

VARIABLES
    access_token,            \* HTTPClient.access_token
    _refresh_token,          \* HTTPClient._refresh_token
    _client_id,              \* HTTPClient._client_id
    _client_secret,          \* HTTPClient._client_secret
    _session,                \* HTTPClient._session
    max_ratelimit_timeout,   \* HTTPClient.max_ratelimit_timeout
    req,                     \* req[r]: the frame of one call of HTTPClient.request
    batch,                   \* the frame of one call of Client.add_tracks
    pl,                      \* a Playlist and the frame of its fetch_tracks
    ctor,                    \* the call of HTTPClient.__init__ and its arguments
    closes,                  \* the calls of Client.close / HTTPClient._close so far
    scopes,                  \* Scopes values and the last operation on them
    route,                   \* the construction of Routes
    activity,                \* the construction of an Activity from a payload
    image                    \* the construction of an Image from a payload

httpVars == <<access_token, _refresh_token, _client_id, _client_secret,
              _session, max_ratelimit_timeout, req>>

\* The value types, which touch neither the transport nor the facade.
valueVars == <<scopes, route, activity, image>>

vars == <<httpVars, batch, pl, ctor, closes, valueVars>>

None == "None"

----------------------------------------------------------------------------
(* Bounds of the model *)

\* Logical requests that may be in flight on one transport.
NumReqs == 2
Reqs == 1..NumReqs

\* Distinct access-token values (the initial one and those the token endpoint hands out).
NumTokens == 3
Tokens == 1..NumTokens

\* Longest track list handed to Client.add_tracks.
MaxTracks == 250

\* Largest page size and largest total of a playlist's track listing.
MaxLimit == 2
MaxTotal == 4

\* Page requests one Playlist makes, and calls of fetch_tracks on it.
MaxPageRequests == 4
MaxFetchCalls == 2

\* Calls of Client.close / HTTPClient._close on one transport.
MaxCloses == 2

\* Sends each of the concurrent requests may make.
MaxConcurrentSends == 2

----------------------------------------------------------------------------
(* Program constants *)

\* for tries in range(5)
RangeTries == 5

\* max_ratelimit_timeout: float = 30
DefaultMaxRatelimitTimeout == 30

\* for i in grouper(100, tracks)
GroupSize == 100

\* if response.status in {500, 502, 504, 524}
RetryableStatuses == {500, 502, 504, 524}

\* The statuses the service answers with in the model: 2xx, a redirect-class
\* answer, the statuses request() names, and other 4xx / 5xx ones.
Statuses == {200, 204, 304, 400, 401, 403, 404, 429, 500, 501, 502, 503, 504, 524}

\* Retry-After values: well inside the budget, exactly the budget, beyond it.
RetryAfterValues == {1, DefaultMaxRatelimitTimeout, DefaultMaxRatelimitTimeout + 1}

\* Content-Type headers of a response (None: the header is missing).
ContentTypes == {"application/json", "application/json; charset=utf-8", "text/plain", None}

----------------------------------------------------------------------------
(* Pure helpers of http.py *)

\* json_or_text: JSON-decoded when the declared content type is JSON, the raw
\* text otherwise (a missing header raises KeyError, which is passed over).
\* `text` identifies the body of the response.
json_or_text(ctype, text) ==
    IF ctype \in {"application/json", "application/json; charset=utf-8"}
    THEN [kind |-> "json", body |-> text]
    ELSE [kind |-> "text", body |-> text]

\* if retry_after > self.max_ratelimit_timeout
RateLimitExceededMutant(retry_after, max_timeout) == retry_after >= max_timeout
RateLimitExceeded(retry_after, max_timeout) == retry_after > max_timeout

\* if self._refresh_token:  (truthiness: neither None nor the empty string)
RefreshConfiguredMutant(token) == token # None
RefreshConfigured(token) == token # None /\ token # ""

\* await asyncio.sleep(retry_after)
RateLimitDelayMutant(retry_after) == 0
RateLimitDelay(retry_after) == retry_after

\* await asyncio.sleep(1 + tries * 2)
BackoffDelay(tries) == 1 + tries * 2

\* The exception raised at the end of the loop body for a status that is
\* neither 2xx, 429 nor 401.
ErrorForMutant(status) ==
    IF status = 404 THEN "NotFound"
    ELSE IF status >= 500 THEN "SpotifyServerError"
    ELSE "HTTPException"
ErrorFor(status) ==
    IF status = 403 THEN "Forbidden"
    ELSE IF status = 404 THEN "NotFound"
    ELSE IF status >= 500 THEN "SpotifyServerError"
    ELSE "HTTPException"

----------------------------------------------------------------------------
(* The frame of one call of HTTPClient.request *)

\* No value yet, and the value None of Python, as values of `data` and `result`.
Unset == [kind |-> "unset", body |-> 0]
PyNone == [kind |-> "None", body |-> 0]

NoFrame ==
    [pc |-> "absent", headers |-> None, tries |-> 0, status |-> 0,
     retry_after |-> 0, data |-> Unset, sleepFor |-> 0,
     \* what the frame has done so far (observation only)
     sentAuth |-> None, heldAtSend |-> None, rejectedHeld |-> FALSE,
     sends |-> 0, tokenCalls |-> 0, sleeps |-> 0,
     tokenAnswer |-> [ok |-> FALSE, has_token |-> FALSE, access_token |-> 0],
     refreshExc |-> None, tokensGot |-> {},
     outcome |-> "pending", result |-> Unset, exc |-> None]

NewFrame == [NoFrame EXCEPT !.pc = "start"]

\* The Authorization a send carries: kwargs['headers'], built once before the loop.
SendAuthorization(f, held) == f.headers

\* session.request(route.method, route.url, **kwargs): one send of the request.
\* `held` is self.access_token at the moment of the send.
Send(f, held) ==
    [f EXCEPT !.pc = "await_resp", !.sends = @ + 1, !.status = 0,
              !.sentAuth = SendAuthorization(f, held), !.heldAtSend = held]

\* return / raise out of request()
Return(f, value) == [f EXCEPT !.pc = "done", !.outcome = "return", !.result = value]
Raise(f, exc) == [f EXCEPT !.pc = "done", !.outcome = "raise", !.exc = exc]

\* `continue`: the next iteration of `for tries in range(5)`, or, when the
\* range is used up, the end of the function body (an implicit `return None`).
ContinueMutant(f, held) ==
    IF f.tries < RangeTries
    THEN Send([f EXCEPT !.tries = @ + 1], held)
    ELSE Return(f, PyNone)
Continue(f, held) ==
    IF f.tries + 1 < RangeTries
    THEN Send([f EXCEPT !.tries = @ + 1], held)
    ELSE Return(f, PyNone)

----------------------------------------------------------------------------
(* HTTPClient.__init__ *)

\* The assertion of __init__: any of the three given => all three given.
CredentialsAcceptedMutant(rt, cid, cs) ==
    rt # None => (cid # None /\ cs # None)
CredentialsAccepted(rt, cid, cs) ==
    (rt # None \/ cid # None \/ cs # None) => (rt # None /\ cid # None /\ cs # None)

HttpInit(calls) ==
    /\ access_token \in Tokens
    /\ \E rt \in {None, "", "rt"}, cid \in {None, "id"}, cs \in {None, "secret"} :
          /\ CredentialsAccepted(rt, cid, cs)
          /\ _refresh_token = rt
          /\ _client_id = cid
          /\ _client_secret = cs
    /\ _session \in {None, "open"}
    /\ max_ratelimit_timeout = DefaultMaxRatelimitTimeout
    /\ req = [r \in Reqs |-> IF r \in calls THEN NewFrame ELSE NoFrame]

\* A transport without refresh credentials on which no request is made.
HttpIdle ==
    /\ access_token = 1
    /\ _refresh_token = None /\ _client_id = None /\ _client_secret = None
    /\ _session = None
    /\ max_ratelimit_timeout = DefaultMaxRatelimitTimeout
    /\ req = [r \in Reqs |-> NoFrame]

----------------------------------------------------------------------------
(* HTTPClient.request *)

\* Entry: the session is created lazily, the headers are built from the
\* held access token, and the first send is made.
Call(r) ==
    /\ req[r].pc = "start"
    /\ _session' = IF _session = None THEN "open" ELSE _session
    /\ req' = [req EXCEPT ![r] =
                  Send([@ EXCEPT !.headers = access_token], access_token)]
    /\ UNCHANGED <<access_token, _refresh_token, _client_id, _client_secret,
                   max_ratelimit_timeout, batch, pl, ctor, closes, valueVars>>

\* The response of the current send arrives; data = await json_or_text(response).
Received(f, status, ctype) ==
    [f EXCEPT !.status = status, !.data = json_or_text(ctype, f.sends)]

\* if 300 > response.status >= 200: return data
Recv2xx(r) ==
    /\ req[r].pc = "await_resp"
    /\ \E status \in Statuses, ctype \in ContentTypes :
          /\ 300 > status /\ status >= 200
          /\ LET f == Received(req[r], status, ctype)
             IN  req' = [req EXCEPT ![r] = Return(f, f.data)]
    /\ UNCHANGED <<access_token, _refresh_token, _client_id, _client_secret,
                   _session, max_ratelimit_timeout, batch, pl, ctor, closes, valueVars>>

\* if response.status == 429: raise RateLimited, or start asyncio.sleep(retry_after)
Recv429(r) ==
    /\ req[r].pc = "await_resp"
    /\ \E ctype \in ContentTypes, ra \in RetryAfterValues :
          LET f == [Received(req[r], 429, ctype) EXCEPT !.retry_after = ra]
          IN  req' = [req EXCEPT ![r] =
                  IF RateLimitExceeded(ra, max_ratelimit_timeout)
                  THEN Raise(f, "RateLimited")
                  ELSE [f EXCEPT !.pc = "sleep429", !.sleepFor = RateLimitDelay(ra),
                                 !.sleeps = @ + 1]]
    /\ UNCHANGED <<access_token, _refresh_token, _client_id, _client_secret,
                   _session, max_ratelimit_timeout, batch, pl, ctor, closes, valueVars>>

\* asyncio.sleep(retry_after) is over: continue
After429Mutant(f, held) == Send(f, held)
After429(f, held) == Continue(f, held)

Wake429(r) ==
    /\ req[r].pc = "sleep429"
    /\ req' = [req EXCEPT ![r] = After429(@, access_token)]
    /\ UNCHANGED <<access_token, _refresh_token, _client_id, _client_secret,
                   _session, max_ratelimit_timeout, batch, pl, ctor, closes, valueVars>>

\* if response.status == 401: start refresh_token() when a refresh token is
\* held (the POST to the token endpoint), raise Unauthorized otherwise.
Recv401(r) ==
    /\ req[r].pc = "await_resp"
    /\ \E ctype \in ContentTypes :
          LET g == Received(req[r], 401, ctype)
              \* the service turned down the very token the transport held at
              \* the send, after this request had the token refreshed
              f == [g EXCEPT !.rejectedHeld =
                        @ \/ (g.tokenCalls > 0 /\ g.sentAuth = g.heldAtSend)]
          IN  req' = [req EXCEPT ![r] =
                  IF RefreshConfigured(_refresh_token)
                  THEN [f EXCEPT !.pc = "refreshing", !.tokenCalls = @ + 1,
                                 !.refreshExc = None]
                  ELSE Raise(f, "Unauthorized")]
    /\ UNCHANGED <<access_token, _refresh_token, _client_id, _client_secret,
                   _session, max_ratelimit_timeout, batch, pl, ctor, closes, valueVars>>

\* What the token endpoint may answer: a failure status, a success whose
\* JSON body has no 'access_token', or a success with an access token.
TokenAnswers ==
    {[ok |-> FALSE, has_token |-> FALSE, access_token |-> 0],
     [ok |-> TRUE, has_token |-> FALSE, access_token |-> 0]}
        \cup {[ok |-> TRUE, has_token |-> TRUE, access_token |-> t] : t \in Tokens}

\* HTTPClient.refresh_token, from the answer on: the exception it raises
\* (None when it returns) and self.access_token after it.
\*   if not response.ok: response.raise_for_status()
\*   r = await response.json(); self.access_token = r['access_token']
refresh_tokenMutant(held, answer) ==
    IF ~answer.ok THEN [exc |-> "ClientResponseError", access_token |-> answer.access_token]
    ELSE IF ~answer.has_token THEN [exc |-> "KeyError", access_token |-> answer.access_token]
    ELSE [exc |-> None, access_token |-> answer.access_token]
refresh_tokenKeepsFirst(held, answer) ==
    IF ~answer.ok THEN [exc |-> "ClientResponseError", access_token |-> held]
    ELSE IF ~answer.has_token THEN [exc |-> "KeyError", access_token |-> held]
    ELSE [exc |-> None, access_token |-> held]
refresh_token(held, answer) ==
    IF ~answer.ok THEN [exc |-> "ClientResponseError", access_token |-> held]
    ELSE IF ~answer.has_token THEN [exc |-> "KeyError", access_token |-> held]
    ELSE [exc |-> None, access_token |-> answer.access_token]

\* except Exception: pass ... raise Unauthorized(response, data)
AfterRefreshFailureMutant(f, exc) == Raise(f, exc)
AfterRefreshFailure(f, exc) == Raise(f, "Unauthorized")

\* refresh_token() returns: the token endpoint answered ok with an access
\* token; self.access_token = r['access_token'], then `continue` in request().
RefreshOk(r) ==
    /\ req[r].pc = "refreshing"
    /\ \E answer \in TokenAnswers :
          LET res == refresh_token(access_token, answer)
              f == [req[r] EXCEPT !.tokenAnswer = answer, !.refreshExc = res.exc]
              g == [f EXCEPT !.tokensGot = @ \cup {answer.access_token}]
          IN  /\ res.exc = None
              /\ access_token' = res.access_token
              /\ req' = [req EXCEPT ![r] = Continue(g, res.access_token)]
    /\ UNCHANGED <<_refresh_token, _client_id, _client_secret,
                   _session, max_ratelimit_timeout, batch, pl, ctor, closes, valueVars>>

\* refresh_token() raises: the token endpoint answered with a failure status
\* (raise_for_status) or without an access token (KeyError); request()
\* passes over the exception and raises Unauthorized(response, data).
RefreshFail(r) ==
    /\ req[r].pc = "refreshing"
    /\ \E answer \in TokenAnswers :
          LET res == refresh_token(access_token, answer)
              f == [req[r] EXCEPT !.tokenAnswer = answer, !.refreshExc = res.exc]
          IN  /\ res.exc # None
              /\ access_token' = res.access_token
              /\ req' = [req EXCEPT ![r] = AfterRefreshFailure(f, res.exc)]
    /\ UNCHANGED <<_refresh_token, _client_id, _client_secret,
                   _session, max_ratelimit_timeout, batch, pl, ctor, closes, valueVars>>

\* if response.status in {500, 502, 504, 524}: await asyncio.sleep(1 + tries * 2)
RecvRetryable(r) ==
    /\ req[r].pc = "await_resp"
    /\ \E status \in Statuses \cap RetryableStatuses, ctype \in ContentTypes :
          LET f == Received(req[r], status, ctype)
          IN  req' = [req EXCEPT ![r] =
                  [f EXCEPT !.pc = "backoff", !.sleepFor = BackoffDelay(f.tries),
                            !.sleeps = @ + 1]]
    /\ UNCHANGED <<access_token, _refresh_token, _client_id, _client_secret,
                   _session, max_ratelimit_timeout, batch, pl, ctor, closes, valueVars>>

\* the sleep of a 500/502/504/524 is over: control falls through to the
\* if/elif chain, which raises.
WakeBackoff(r) ==
    /\ req[r].pc = "backoff"
    /\ req' = [req EXCEPT ![r] = Raise(@, ErrorFor(@.status))]
    /\ UNCHANGED <<access_token, _refresh_token, _client_id, _client_secret,
                   _session, max_ratelimit_timeout, batch, pl, ctor, closes, valueVars>>

\* any other status: the if/elif chain raises at once.
RecvOther(r) ==
    /\ req[r].pc = "await_resp"
    /\ \E status \in Statuses, ctype \in ContentTypes :
          /\ ~(300 > status /\ status >= 200)
          /\ status \notin {429, 401} \cup RetryableStatuses
          /\ LET f == Received(req[r], status, ctype)
             IN  req' = [req EXCEPT ![r] = Raise(f, ErrorFor(status))]
    /\ UNCHANGED <<access_token, _refresh_token, _client_id, _client_secret,
                   _session, max_ratelimit_timeout, batch, pl, ctor, closes, valueVars>>

HttpNext ==
    \E r \in Reqs :
        \/ Call(r)
        \/ Recv2xx(r)
        \/ Recv429(r)
        \/ Wake429(r)
        \/ Recv401(r)
        \/ RefreshOk(r)
        \/ RefreshFail(r)
        \/ RecvRetryable(r)
        \/ WakeBackoff(r)
        \/ RecvOther(r)

----------------------------------------------------------------------------
(* Several calls of HTTPClient.request as tasks of one event loop *)

\* The await points of request(): the response of a send, the two sleeps,
\* and the call of refresh_token().
Suspended(r) == req[r].pc \in {"await_resp", "sleep429", "refreshing", "backoff"}

\* The task of request r is cancelled while it is suspended: CancelledError
\* is raised at the await, passes `except Exception` and leaves request().
Cancel(r) ==
    /\ Suspended(r)
    /\ req' = [req EXCEPT ![r] = Raise(@, "CancelledError")]
    /\ UNCHANGED <<access_token, _refresh_token, _client_id, _client_secret,
                   _session, max_ratelimit_timeout, batch, pl, ctor, closes, valueVars>>

\* Whether the event loop can resume the task of request r when what it
\* awaits is there: every wait of request() is an `await` (aiohttp,
\* asyncio.sleep), and request() takes no lock, so no other task's wait
\* holds it back.
RunnableMutant(r) ==
    \A q \in Reqs \ {r} : req[q].pc \notin {"sleep429", "backoff"}
Runnable(r) == TRUE

\* The responses drawn for the concurrent requests: one status of each
\* branch of request(), one content type, and a Retry-After inside and one
\* beyond the budget.
ConcurrentStatuses == {200, 401, 404, 429, 500}

Narrowed ==
    \A r \in Reqs :
        /\ req[r].status \in {0} \cup ConcurrentStatuses
        /\ req[r].data.kind \in {"unset", "json"}
        /\ req[r].retry_after \in {0, 1, DefaultMaxRatelimitTimeout + 1}
        /\ req[r].sends <= MaxConcurrentSends

\* The task of request r is resumed and runs A, up to its next await.
Resume(r, A) == Runnable(r) /\ A /\ Narrowed'

\* One step of the task of request r.
Step(r) ==
    \/ Resume(r, Call(r))
    \/ Resume(r, Recv2xx(r))
    \/ Resume(r, Recv429(r))
    \/ Resume(r, Wake429(r))
    \/ Resume(r, Recv401(r))
    \/ Resume(r, RefreshOk(r))
    \/ Resume(r, RefreshFail(r))
    \/ Resume(r, RecvRetryable(r))
    \/ Resume(r, WakeBackoff(r))
    \/ Resume(r, RecvOther(r))
    \/ Resume(r, Cancel(r))

\* The requests in flight together.
InFlight == {1, 2}

----------------------------------------------------------------------------
(* utils.grouper and Client.add_tracks *)

Min(a, b) == IF a < b THEN a ELSE b

\* tuple(itertools.islice(it, n)): the next n items (fewer at the end) of an
\* iterator that has consumed `pos` items of `iterable`.
islice(iterable, pos, n) == SubSeq(iterable, pos + 1, Min(pos + n, Len(iterable)))

\* One round of grouper's `while True`: the chunk it yields, or <<>> when the
\* chunk is empty and the generator returns.
grouperMutant(n, iterable, pos) ==
    IF Len(islice(iterable, pos, n)) = n THEN islice(iterable, pos, n) ELSE <<>>
grouper(n, iterable, pos) == islice(iterable, pos, n)

NoBatch ==
    [pc |-> "absent", playlist |-> None, tracks |-> <<>>, position |-> <<>>,
     it |-> 0, calls |-> <<>>, applied |-> <<>>, outcome |-> "pending"]

\* position: Optional[int], as <<>> (None) or <<p>>.
Positions == {<<>>, <<0>>, <<7>>}

AddTracksInit ==
    \E n \in 0..MaxTracks, position \in Positions :
        batch = [NoBatch EXCEPT !.pc = "loop", !.playlist = "playlist",
                                !.tracks = [i \in 1..n |-> i],
                                !.position = position]

\* position=position: the position a batch call is given, after `sent`
\* tracks went out in earlier calls.
BatchPositionMutant(position, sent) ==
    IF position = <<>> THEN position ELSE <<position[1] + sent>>
BatchPosition(position, sent) == position

\* HTTPClient.add_tracks(playlist, tracks, position=position) succeeded: the
\* service has added the group to the playlist.
HttpAddTracksApplied(applied, call) == Append(applied, call)

\* for i in grouper(100, tracks): the loop takes the next group and awaits
\* self.http.add_tracks(playlist, i, position=position), or ends.
AddTracksLoop ==
    /\ batch.pc = "loop"
    /\ LET i == grouper(GroupSize, batch.tracks, batch.it)
       IN  batch' =
             IF i = <<>>
             THEN [batch EXCEPT !.pc = "done", !.outcome = "return"]
             ELSE [batch EXCEPT
                     !.pc = "await_call",
                     !.it = @ + Len(i),
                     !.calls = Append(@, [playlist |-> batch.playlist,
                                          tracks |-> i,
                                          position |->
                                              BatchPosition(batch.position, batch.it)])]
    /\ UNCHANGED <<httpVars, pl, ctor, closes, valueVars>>

\* the awaited transport call returns
AddTracksCallReturns ==
    /\ batch.pc = "await_call"
    /\ batch' = [batch EXCEPT
                   !.pc = "loop",
                   !.applied = HttpAddTracksApplied(@, batch.calls[Len(batch.calls)])]
    /\ UNCHANGED <<httpVars, pl, ctor, closes, valueVars>>

\* the awaited transport call raises: nothing in add_tracks catches it
AddTracksCallRaisesMutant ==
    /\ batch.pc = "await_call"
    /\ batch' = [batch EXCEPT !.pc = "loop", !.outcome = "raise"]
    /\ UNCHANGED <<httpVars, pl, ctor, closes, valueVars>>
AddTracksCallRaises ==
    /\ batch.pc = "await_call"
    /\ batch' = [batch EXCEPT !.pc = "done", !.outcome = "raise"]
    /\ UNCHANGED <<httpVars, pl, ctor, closes, valueVars>>

AddTracksNext ==
    \/ AddTracksLoop
    \/ AddTracksCallReturns
    \/ AddTracksCallRaises

----------------------------------------------------------------------------
(* Playlist and Playlist.fetch_tracks *)

\* A cursor (`next`) stands for the URL of the page that starts at that offset.
\* The page of the track listing at offset o: o and the limit as the service
\* reports them, and the items o+1 .. min(o+limit, total).
PageItems(o, limit, total) == [i \in 1..(Min(o + limit, total) - Min(o, total)) |-> o + i]

NoPlaylist ==
    [pc |-> "absent", items |-> <<>>, offset |-> 0, limit |-> 0, total |-> 0,
     next |-> <<>>, next_ |-> <<>>, calls |-> 0, requests |-> 0,
     lastOffset |-> 0, lastLimit |-> 0, lastNext |-> <<>>, outcome |-> "pending"]

\* Playlist.__init__ / PlaylistTracks.__init__: the first page of the listing.
\* `next` is Optional: <<>> (None) or <<cursor>>; the service hands out a
\* cursor only when the listing goes on after the first page.
PlaylistInit ==
    \E limit \in 1..MaxLimit, total \in 0..MaxTotal :
      \E next \in {<<>>} \cup (IF limit < total THEN {<<limit>>} ELSE {}) :
        pl = [NoPlaylist EXCEPT
                !.pc = "idle", !.items = PageItems(0, limit, total),
                !.offset = 0, !.limit = limit, !.total = total, !.next = next,
                !.lastOffset = 0, !.lastLimit = limit, !.lastNext = next]

\* `while next_ is not None:` then `await self._http.request(route)`, or the
\* end of fetch_tracks.
WhileNext(p, next_) ==
    IF next_ # <<>>
    THEN [p EXCEPT !.pc = "await_page", !.next_ = next_, !.requests = @ + 1]
    ELSE [p EXCEPT !.pc = "idle", !.next_ = next_, !.outcome = "return"]

\* if self.tracks.offset + self.tracks.limit >= self.tracks.total: return
ReachedTotal(p) == p.offset + p.limit >= p.total

\* fetch_tracks is called: next_ = self.tracks._next
FetchTracks ==
    /\ pl.pc = "idle"
    /\ pl.calls < MaxFetchCalls
    /\ pl' = WhileNext([pl EXCEPT !.calls = @ + 1, !.outcome = "pending"], pl.next)
    /\ UNCHANGED <<httpVars, batch, ctor, closes, valueVars>>

\* the page at next_ arrives: its items are appended, then the loop goes on
\* or returns. The service may or may not hand out a further cursor.
FetchPageReturns ==
    /\ pl.pc = "await_page"
    /\ LET o == pl.next_[1]
       IN  \E res_next \in {<<>>} \cup
                 (IF pl.requests < MaxPageRequests THEN {<<o + pl.limit>>} ELSE {}) :
             LET p == [pl EXCEPT !.items = @ \o PageItems(o, pl.limit, pl.total),
                                 !.lastOffset = o, !.lastLimit = pl.limit,
                                 !.lastNext = res_next]
             IN  pl' = IF ReachedTotal(p)
                       THEN [p EXCEPT !.pc = "idle", !.outcome = "return"]
                       ELSE WhileNext(p, res_next)
    /\ UNCHANGED <<httpVars, batch, ctor, closes, valueVars>>

\* the request of the page raises: fetch_tracks raises
FetchPageRaises ==
    /\ pl.pc = "await_page"
    /\ pl' = [pl EXCEPT !.pc = "idle", !.outcome = "raise"]
    /\ UNCHANGED <<httpVars, batch, ctor, closes, valueVars>>

PlaylistNext ==
    \/ FetchTracks
    \/ FetchPageReturns
    \/ FetchPageRaises

----------------------------------------------------------------------------
(* HTTPClient.__init__ as a step, and closing the transport *)

NoCtor ==
    [pc |-> "absent", access_token |-> 0, session |-> None,
     refresh_token |-> None, client_id |-> None, client_secret |-> None]

NoCloses == 0

\* HTTPClient(access_token, session, refresh_token, client_id, client_secret)
\* is about to be called (by Client.__init__) with these arguments.
CtorInit ==
    \E t \in Tokens, s \in {None, "open"},
       rt \in {None, "", "rt"}, cid \in {None, "id"}, cs \in {None, "secret"} :
        ctor = [pc |-> "new", access_token |-> t, session |-> s,
                refresh_token |-> rt, client_id |-> cid, client_secret |-> cs]

\* No transport object yet.
HttpUnconstructed ==
    /\ access_token = 0
    /\ _refresh_token = None /\ _client_id = None /\ _client_secret = None
    /\ _session = None
    /\ max_ratelimit_timeout = DefaultMaxRatelimitTimeout
    /\ req = [r \in Reqs |-> IF r = 1 THEN NewFrame ELSE NoFrame]

\* HTTPClient.__init__: the fields are assigned and the assertion is made; an
\* AssertionError leaves the caller without a transport.
Construct ==
    /\ ctor.pc = "new"
    /\ IF CredentialsAccepted(ctor.refresh_token, ctor.client_id, ctor.client_secret)
       THEN /\ access_token' = ctor.access_token
            /\ _refresh_token' = ctor.refresh_token
            /\ _client_id' = ctor.client_id
            /\ _client_secret' = ctor.client_secret
            /\ _session' = ctor.session
            /\ ctor' = [ctor EXCEPT !.pc = "constructed"]
       ELSE /\ ctor' = [ctor EXCEPT !.pc = "AssertionError"]
            /\ UNCHANGED <<access_token, _refresh_token, _client_id,
                           _client_secret, _session>>
    /\ UNCHANGED <<max_ratelimit_timeout, req, batch, pl, closes, valueVars>>

\* aiohttp.ClientSession.close(): closes the session, a no-op on a closed one.
SessionClose(session) == "closed"

\* HTTPClient._close: if self._session is not None: await self._session.close()
HttpCloseSessionMutant(session) == SessionClose(session)
HttpCloseSession(session) ==
    IF session # None THEN SessionClose(session) ELSE session

\* Client.close: if self.http._session is not None: await self.http._close()
ClientCloseSession(session) ==
    IF session # None THEN HttpCloseSession(session) ELSE session

\* No call of request() is between its entry and its end.
NoRequestInFlight == \A r \in Reqs : req[r].pc \in {"absent", "start", "done"}

\* Client.close() is called (also by __aexit__).
ClientClose ==
    /\ closes < MaxCloses
    /\ NoRequestInFlight
    /\ _session' = ClientCloseSession(_session)
    /\ closes' = closes + 1
    /\ UNCHANGED <<access_token, _refresh_token, _client_id, _client_secret,
                   max_ratelimit_timeout, req, batch, pl, ctor, valueVars>>

\* HTTPClient._close() is called directly.
HttpClose ==
    /\ closes < MaxCloses
    /\ NoRequestInFlight
    /\ _session' = HttpCloseSession(_session)
    /\ closes' = closes + 1
    /\ UNCHANGED <<access_token, _refresh_token, _client_id, _client_secret,
                   max_ratelimit_timeout, req, batch, pl, ctor, valueVars>>

----------------------------------------------------------------------------
(* errors.py: the exception classes and their bases *)

ExceptionBases ==
    [SpotifyException |-> {"Exception"},
     HTTPException |-> {"SpotifyException"},
     RateLimited |-> {"SpotifyException"},
     Unauthorized |-> {"HTTPException"},
     Forbidden |-> {"HTTPException"},
     NotFound |-> {"HTTPException"},
     SpotifyServerError |-> {"Exception"},
     Exception |-> {}]

\* isinstance(exc, cls) for an exception of class `name`
RECURSIVE IsInstance(_, _)
IsInstance(name, cls) ==
    \/ name = cls
    \/ \E base \in ExceptionBases[name] : IsInstance(base, cls)

\* The classes whose __init__ sets self.status = response.status.
CarriesStatus(name) == IsInstance(name, "HTTPException")

----------------------------------------------------------------------------
(* oauth/scopes.py: Scopes, a set of flags held in one int *)

\* Mutations of one Scopes value.
MaxSetOps == 1

\* x & y, x | y, x ^ y and x & ~y on the non-negative ints of Python.
RECURSIVE BitAnd(_, _)
BitAnd(x, y) ==
    IF x = 0 \/ y = 0 THEN 0
    ELSE (x % 2) * (y % 2) + 2 * BitAnd(x \div 2, y \div 2)

RECURSIVE BitOr(_, _)
BitOr(x, y) ==
    IF x = 0 THEN y
    ELSE IF y = 0 THEN x
    ELSE (IF x % 2 = 1 \/ y % 2 = 1 THEN 1 ELSE 0) + 2 * BitOr(x \div 2, y \div 2)

RECURSIVE BitXor(_, _)
BitXor(x, y) ==
    IF x = 0 THEN y
    ELSE IF y = 0 THEN x
    ELSE (IF x % 2 # y % 2 THEN 1 ELSE 0) + 2 * BitXor(x \div 2, y \div 2)

RECURSIVE BitAndNot(_, _)
BitAndNot(x, y) ==
    IF x = 0 THEN 0
    ELSE (IF x % 2 = 1 /\ y % 2 = 0 THEN 1 ELSE 0)
            + 2 * BitAndNot(x \div 2, y \div 2)

\* int.bit_length()
RECURSIVE bit_length(_)
bit_length(x) == IF x = 0 THEN 0 ELSE 1 + bit_length(x \div 2)

\* The flags of Scopes in the order of the class body, and the value each
\* takes from the enum SpotifyScopes.
FlagNames ==
    <<"ugc_image_upload", "user_read_playback_state", "app_remote_control",
      "user_modify_playback_state", "playlist_read_private",
      "user_follow_modify", "playlist_read_collaborative", "user_follow_read",
      "user_read_currently_playing", "user_read_playback_position",
      "user_library_modify", "playlist_modify_private",
      "playlist_modify_public", "user_read_email", "user_top_read",
      "streaming", "user_read_recently_played", "user_read_private",
      "user_library_read">>

SpotifyScopes ==
    [ugc_image_upload |-> 1, user_read_playback_state |-> 2,
     app_remote_control |-> 4, user_modify_playback_state |-> 8,
     playlist_read_private |-> 16, user_follow_modify |-> 32,
     playlist_read_collaborative |-> 64, user_follow_read |-> 128,
     user_read_currently_playing |-> 256, user_read_playback_position |-> 512,
     user_library_modify |-> 1024, playlist_modify_private |-> 2048,
     playlist_modify_public |-> 4096, user_read_email |-> 8192,
     user_top_read |-> 16384, streaming |-> 32768,
     user_read_recently_played |-> 65536, user_read_private |-> 131072,
     user_library_read |-> 262144]

\* fill_with_flags: VALID_FLAGS maps each flag_value of the class to its flag.
VALID_FLAGS == [name \in {FlagNames[i] : i \in 1..Len(FlagNames)} |-> SpotifyScopes[name]]

Names == DOMAIN VALID_FLAGS

\* fill_with_flags(inverted=False)
DEFAULT_VALUE == 0

\* BaseFlags._has_flag: (self.value & o) == o
_has_flag(value, o) == BitAnd(value, o) = o

\* BaseFlags._set_flag with a bool: value |= o, or value &= ~o
_set_flagMutant(value, o, toggle) ==
    IF toggle THEN BitOr(value, o) ELSE BitXor(value, o)
_set_flag(value, o, toggle) ==
    IF toggle THEN BitOr(value, o) ELSE BitAndNot(value, o)

\* flag_value.__get__ and flag_value.__set__ of the flag called `name`
GetFlag(value, name) == _has_flag(value, VALID_FLAGS[name])
SetFlag(value, name, toggle) == _set_flag(value, VALID_FLAGS[name], toggle)

\* BaseFlags.__or__, __and__, __xor__, __invert__: the value of the new object
__or__Mutant(x, y) == BitXor(x, y)
__or__(x, y) == BitOr(x, y)
__and__(x, y) == BitAnd(x, y)
__xor__(x, y) == BitXor(x, y)

\* max(VALID_FLAGS.values())
RECURSIVE MaxOf(_)
MaxOf(S) ==
    IF S = {} THEN 0
    ELSE LET x == CHOOSE x \in S : TRUE
             m == MaxOf(S \ {x})
         IN  IF x > m THEN x ELSE m

__invert__(x) ==
    LET max_bits == bit_length(MaxOf({VALID_FLAGS[n] : n \in Names}))
        max_value == 2 ^ max_bits - 1
    IN  BitXor(x, max_value)

\* Scopes.all: reduce(lambda a, b: a | b, cls.VALID_FLAGS.values())
RECURSIVE ReduceOr(_, _)
ReduceOr(names, i) ==
    IF i = 1 THEN VALID_FLAGS[names[1]]
    ELSE BitOr(ReduceOr(names, i - 1), VALID_FLAGS[names[i]])

Scopes_all == ReduceOr(FlagNames, Len(FlagNames))

\* Scopes.default: all(), then these attributes are set to False, in order.
DefaultCleared ==
    <<"ugc_image_upload", "app_remote_control", "user_modify_playback_state",
      "user_follow_modify", "user_library_modify", "playlist_modify_private",
      "playlist_modify_public", "streaming">>

RECURSIVE ClearEach(_, _, _)
ClearEach(value, names, i) ==
    IF i = 0 THEN value
    ELSE SetFlag(ClearEach(value, names, i - 1), names[i], FALSE)

Scopes_defaultMutant == ClearEach(Scopes_all, DefaultCleared, Len(DefaultCleared) - 1)
Scopes_default == ClearEach(Scopes_all, DefaultCleared, Len(DefaultCleared))

\* Two Scopes objects a and b; the last assignment of a flag of a, with the
\* value a had before it; and the object r last returned by a classmethod or
\* an operator (<<>> while there is none).
NoScopes ==
    [pc |-> "absent", a |-> 0, b |-> 0, ops |-> 0, name |-> None,
     toggle |-> FALSE, before |-> 0, op |-> None, r |-> <<>>]

\* Scopes(), Scopes.all(), Scopes.default(), and Scopes(name=True).
ScopesSeeds ==
    {DEFAULT_VALUE, Scopes_all, Scopes_default}
        \cup {SetFlag(DEFAULT_VALUE, n, TRUE) :
                n \in {"ugc_image_upload", "user_read_email", "user_library_read"}}

ScopesInit ==
    \E a \in {DEFAULT_VALUE, Scopes_all, Scopes_default}, b \in ScopesSeeds :
        scopes = [NoScopes EXCEPT !.pc = "live", !.a = a, !.b = b]

\* a.<name> = toggle
AssignFlag ==
    /\ scopes.pc = "live"
    /\ scopes.ops < MaxSetOps
    /\ \E name \in Names, toggle \in BOOLEAN :
          scopes' = [scopes EXCEPT !.a = SetFlag(@, name, toggle),
                                   !.before = scopes.a,
                                   !.name = name, !.toggle = toggle,
                                   !.ops = @ + 1]
    /\ UNCHANGED <<httpVars, batch, pl, ctor, closes, route, activity, image>>

\* r = a | b, r = a & b, r = a ^ b
Operator(op, value) ==
    /\ scopes.pc = "live"
    /\ scopes' = [scopes EXCEPT !.op = op, !.r = <<value>>]
    /\ UNCHANGED <<httpVars, batch, pl, ctor, closes, route, activity, image>>

Or == Operator("__or__", __or__(scopes.a, scopes.b))
And == Operator("__and__", __and__(scopes.a, scopes.b))
Xor == Operator("__xor__", __xor__(scopes.a, scopes.b))
Invert == Operator("__invert__", __invert__(scopes.a))

\* r = Scopes.all(), r = Scopes.default()
All == Operator("all", Scopes_all)
Default == Operator("default", Scopes_default)

ScopesNext ==
    \/ AssignFlag
    \/ Or
    \/ And
    \/ Xor
    \/ Invert
    \/ All
    \/ Default

----------------------------------------------------------------------------
(* utils.py: Route *)

\* The Route objects under construction.
RouteIds == {1, 2}

BASE == "https://api.spotify.com/v1"

\* Methods a caller may pass: the four of the type hint, and one other.
Methods == {"GET", "POST", "PUT", "DELETE", "PATCH"}

\* Path templates, as their literal pieces and replacement fields.
Paths == {<<"/me/player/currently-playing">>, <<"/playlists/", "{id}">>}

\* **parameters: none, or one keyword whose value is a str (given as its
\* characters) or an int (given as the characters of its str()).
NoParameters == <<>>
ParameterChoices ==
    {NoParameters,
     <<[name |-> "id", type |-> "str", chars |-> <<"b", " ", "c">>]>>,
     <<[name |-> "id", type |-> "int", chars |-> <<"7">>]>>,
     <<[name |-> "id", type |-> "str", chars |-> <<"x", "/", "?">>]>>}

\* urllib.parse.quote(v): letters, digits, "_.-~" and "/" are kept, every
\* other character becomes "%XX".
AlwaysSafe == {"b", "c", "x", "7", "/"}
PercentEncoded == [c \in {" ", "?"} |-> IF c = " " THEN "%20" ELSE "%3F"]

RECURSIVE _uriquote(_)
_uriquote(v) ==
    IF v = <<>> THEN <<>>
    ELSE <<IF Head(v) \in AlwaysSafe THEN Head(v) ELSE PercentEncoded[Head(v)]>>
            \o _uriquote(Tail(v))

\* {k: _uriquote(v) if isinstance(v, str) else v for k, v in parameters.items()}
Quoted(parameters) ==
    [i \in 1..Len(parameters) |->
        [parameters[i] EXCEPT !.chars = IF parameters[i].type = "str"
                                        THEN _uriquote(@) ELSE @]]

\* str.format_map on the pieces of a template
RECURSIVE format_map(_, _)
format_map(pieces, mapping) ==
    IF pieces = <<>> THEN <<>>
    ELSE LET piece == Head(pieces)
             rest == format_map(Tail(pieces), mapping)
         IN  IF piece = "{id}" /\ \E i \in 1..Len(mapping) : mapping[i].name = "id"
             THEN mapping[CHOOSE i \in 1..Len(mapping) : mapping[i].name = "id"].chars
                    \o rest
             ELSE <<piece>> \o rest

\* The attributes a Route has after __init__ (BASE is a class attribute).
RouteAttributes == {"BASE", "method", "path", "url"}

NoRouteObject ==
    [state |-> "absent", method |-> None, path |-> <<>>, parameters |-> <<>>,
     url |-> <<>>, exc |-> None]

\* The read of an attribute: not yet made, its value, or the exception.
NoRead == [done |-> FALSE, exc |-> None, value |-> <<>>]

NoRoute ==
    [pc |-> "absent",
     objs |-> [i \in RouteIds |-> NoRouteObject],
     key |-> [i \in RouteIds |-> NoRead]]

RouteInit == route = [NoRoute EXCEPT !.pc = "live"]

\* Route.__init__(method, path, **parameters)
RouteNew(method, path, parameters) ==
    LET url == <<BASE>> \o path
    IN  [state |-> "built", method |-> method, path |-> path,
         parameters |-> parameters,
         url |-> IF parameters # <<>>
                 THEN <<BASE>> \o format_map(path, Quoted(parameters))
                 ELSE url,
         exc |-> None]

NewRoute(i) ==
    /\ route.pc = "live"
    /\ route.objs[i].state = "absent"
    /\ \E method \in Methods, path \in Paths, parameters \in ParameterChoices :
          route' = [route EXCEPT !.objs[i] = RouteNew(method, path, parameters)]
    /\ UNCHANGED <<httpVars, batch, pl, ctor, closes, scopes, activity, image>>

\* getattr(route, name): the attribute, or AttributeError
GetAttr(obj, name) ==
    IF name \in RouteAttributes
    THEN [done |-> TRUE, exc |-> None,
          value |-> IF name = "method" THEN <<obj.method>>
                    ELSE IF name = "path" THEN obj.path
                    ELSE IF name = "url" THEN obj.url
                    ELSE <<BASE>>]
    ELSE [done |-> TRUE, exc |-> "AttributeError", value |-> <<>>]

\* a caller reads route.key
ReadKey(i) ==
    /\ route.pc = "live"
    /\ route.objs[i].state = "built"
    /\ ~route.key[i].done
    /\ route' = [route EXCEPT !.key[i] = GetAttr(route.objs[i], "key")]
    /\ UNCHANGED <<httpVars, batch, pl, ctor, closes, scopes, activity, image>>

RouteNext == \E i \in RouteIds : NewRoute(i) \/ ReadKey(i)

----------------------------------------------------------------------------
(* models/playback.py: Activity *)

\* class PlayableTypes(Enum): the values of its members
PlayableTypes == {"track", "episode", "ad"}

\* ActivityPayload.currently_playing_type: Literal['track', 'episode', 'ad', 'unknown']
PayloadTypes == {"track", "episode", "ad", "unknown"}

\* data['device']: the key is missing, its value is null, or it is a
\* DevicePayload.
DevicePayloads ==
    {[key |-> FALSE, null |-> FALSE, name |-> ""],
     [key |-> TRUE, null |-> TRUE, name |-> ""],
     [key |-> TRUE, null |-> FALSE, name |-> "phone"]}

ProgressValues == {0, 1500, 61000}

NoDevice == [none |-> TRUE, name |-> ""]

NoActivity ==
    [pc |-> "absent",
     data |-> [currently_playing_type |-> "track",
               device |-> [key |-> FALSE, null |-> FALSE, name |-> ""],
               progress_ms |-> 0, is_playing |-> FALSE],
     exc |-> None, device |-> NoDevice, currently_playing_type |-> None,
     progress |-> 0, is_playing |-> FALSE]

\* A payload has arrived and Activity(data) is about to be called.
ActivityInit ==
    \E type \in PayloadTypes, device \in DevicePayloads,
       progress_ms \in ProgressValues, is_playing \in BOOLEAN :
        activity = [NoActivity EXCEPT
                        !.pc = "payload",
                        !.data = [currently_playing_type |-> type,
                                  device |-> device,
                                  progress_ms |-> progress_ms,
                                  is_playing |-> is_playing]]

\* PlayableTypes(value): the member with that value, or ValueError
EnumLookup(value) ==
    IF value \in PlayableTypes THEN [exc |-> None, member |-> value]
    ELSE [exc |-> "ValueError", member |-> None]

\* data.get('device') is None
DeviceIsNone(device) == ~device.key \/ device.null

\* datetime.timedelta(seconds=progress_ms / 1000), in microseconds
Timedelta(progress_ms) == progress_ms * 1000

\* Activity.__init__(data)
Decode ==
    /\ activity.pc = "payload"
    /\ LET data == activity.data
           looked == EnumLookup(data.currently_playing_type)
       IN  activity' =
             IF looked.exc # None
             THEN [activity EXCEPT !.pc = "done", !.exc = looked.exc]
             ELSE IF looked.member # "track"
             THEN [activity EXCEPT !.pc = "done", !.exc = "NotImplementedError"]
             ELSE [activity EXCEPT
                      !.pc = "done",
                      !.device = IF DeviceIsNone(data.device) THEN NoDevice
                                 ELSE [none |-> FALSE, name |-> data.device.name],
                      !.currently_playing_type = looked.member,
                      !.progress = Timedelta(data.progress_ms),
                      !.is_playing = data.is_playing]
    /\ UNCHANGED <<httpVars, batch, pl, ctor, closes, scopes, route, image>>

ActivityNext == Decode

----------------------------------------------------------------------------
(* models/image.py: Image *)

\* The values of a decoded JSON object: an int or a str.
PyInt(n) == [type |-> "int", int |-> n, str |-> ""]
PyStr(t) == [type |-> "str", int |-> 0, str |-> t]

\* ImagePayload: sizes in pixels and source URLs.
Sizes == {64, 160, 300, 640}
Urls == {"https://i.scdn.co/image/a", "https://i.scdn.co/image/b",
         "https://mosaic.scdn.co/640/c", ""}

NoImage ==
    [pc |-> "absent",
     data |-> [height |-> PyInt(0), width |-> PyInt(0), url |-> PyStr("")],
     height |-> PyInt(0), width |-> PyInt(0), url |-> PyStr("")]

\* A payload has arrived and Image(data) is about to be called.
ImageInit ==
    \E height \in Sizes, width \in Sizes, url \in Urls :
        image = [NoImage EXCEPT
                    !.pc = "payload",
                    !.data = [height |-> PyInt(height), width |-> PyInt(width),
                              url |-> PyStr(url)]]

\* Image.__init__(data)
ImageNew(data) ==
    [height |-> data.url, width |-> data.height, url |-> data.url]

DecodeImage ==
    /\ image.pc = "payload"
    /\ LET self == ImageNew(image.data)
       IN  image' = [image EXCEPT !.pc = "done", !.height = self.height,
                                  !.width = self.width, !.url = self.url]
    /\ UNCHANGED <<httpVars, batch, pl, ctor, closes, scopes, route, activity>>

ImageNext == DecodeImage

----------------------------------------------------------------------------
(* The resting values of the value types *)


ValuesIdle ==
    scopes = NoScopes /\ route = NoRoute /\ activity = NoActivity /\ image = NoImage

TransportBuilt == ctor = NoCtor /\ closes = NoCloses

----------------------------------------------------------------------------
(* One logical request on a transport *)

Init ==
    HttpInit({1}) /\ batch = NoBatch /\ pl = NoPlaylist /\ TransportBuilt /\ ValuesIdle

Next == HttpNext

Spec == Init /\ [][Next]_vars

\* Every send is answered and every sleep ends: the event loop runs the
\* coroutine whenever it can take a step.
SpecLive == Spec /\ WF_vars(Next)

(* One call of Client.add_tracks *)

InitAddTracks ==
    HttpIdle /\ AddTracksInit /\ pl = NoPlaylist /\ TransportBuilt /\ ValuesIdle

SpecAddTracks == InitAddTracks /\ [][AddTracksNext]_vars

(* One Playlist *)

InitPlaylist ==
    HttpIdle /\ batch = NoBatch /\ PlaylistInit /\ TransportBuilt /\ ValuesIdle

SpecPlaylist == InitPlaylist /\ [][PlaylistNext]_vars

(* The construction of a transport, then one logical request on it *)

InitConstruct ==
    /\ HttpUnconstructed /\ CtorInit /\ closes = NoCloses
    /\ batch = NoBatch /\ pl = NoPlaylist /\ ValuesIdle

NextConstruct ==
    \/ Construct
    \/ (ctor.pc = "constructed" /\ HttpNext)

SpecConstruct == InitConstruct /\ [][NextConstruct]_vars

(* One logical request on a transport, which is then closed *)

InitClose ==
    /\ HttpInit({1}) /\ ctor = NoCtor /\ closes = NoCloses
    /\ batch = NoBatch /\ pl = NoPlaylist /\ ValuesIdle

NextClose ==
    \/ (closes = 0 /\ HttpNext)
    \/ ClientClose
    \/ HttpClose

SpecClose == InitClose /\ [][NextClose]_vars

(* Two logical requests in flight on one transport *)

InitConcurrent ==
    /\ HttpInit(InFlight)
    /\ access_token = 1
    /\ RefreshConfigured(_refresh_token)
    /\ _session = "open"
    /\ ctor = [NoCtor EXCEPT !.pc = "constructed", !.access_token = access_token,
                             !.session = _session,
                             !.refresh_token = _refresh_token,
                             !.client_id = _client_id,
                             !.client_secret = _client_secret]
    /\ closes = NoCloses
    /\ batch = NoBatch /\ pl = NoPlaylist /\ ValuesIdle

NextConcurrent == \E r \in InFlight : Step(r)

SpecConcurrent == InitConcurrent /\ [][NextConcurrent]_vars

(* Two Scopes objects *)

ValueInit ==
    /\ HttpIdle /\ TransportBuilt /\ batch = NoBatch /\ pl = NoPlaylist

InitScopes ==
    ValueInit /\ ScopesInit /\ route = NoRoute /\ activity = NoActivity /\ image = NoImage

SpecScopes == InitScopes /\ [][ScopesNext]_vars

(* Two Routes *)

InitRoute ==
    ValueInit /\ scopes = NoScopes /\ RouteInit /\ activity = NoActivity /\ image = NoImage

SpecRoute == InitRoute /\ [][RouteNext]_vars

(* One Activity payload *)

InitActivity ==
    ValueInit /\ scopes = NoScopes /\ route = NoRoute /\ ActivityInit /\ image = NoImage

SpecActivity == InitActivity /\ [][ActivityNext]_vars

(* One Image payload *)

InitImage ==
    /\ ValueInit /\ scopes = NoScopes /\ route = NoRoute /\ activity = NoActivity
    /\ ImageInit

SpecImage == InitImage /\ [][ImageNext]_vars

----------------------------------------------------------------------------
(* Properties of HTTPClient.request *)

Is2xx(status) == 300 > status /\ status >= 200

\* The typed failures of errors.py that request() raises.
TypedFailures ==
    {"RateLimited", "Unauthorized", "Forbidden", "NotFound",
     "SpotifyServerError", "HTTPException"}

\* The step in which frame r gets the response of its current send.
GotResponse(r) == req[r].pc = "await_resp" /\ req'[r].status # 0

\* The step in which frame r makes one more send.
Sent(r) == req'[r].pc = "await_resp" /\ req'[r].sends = req[r].sends + 1

\* Once request() has returned or raised, its frame does nothing more.
Finished(r) == req[r].pc = "done" => req'[r] = req[r]

\* C1: a logical request that got a 401 with refresh credentials configured
\* and a token endpoint that answers successfully makes exactly one call to
\* the token endpoint: no second call for the same logical request. Stated
\* here for the runs in which the service never turned down a send that
\* carried the token the transport held after the refresh.
C1_OneTokenCallPerRequest ==
    \A r \in Reqs : ~req[r].rejectedHeld => req[r].tokenCalls <= 1

\* C2: every send carries the Bearer token the transport holds at the moment
\* of that send, the re-send after a refresh included.
C2_SendCarriesHeldToken ==
    \A r \in Reqs : req[r].sends > 0 => req[r].sentAuth = req[r].heldAtSend

\* C3 as claimed: every 429 within the wait budget is waited out for
\* Retry-After seconds and followed by exactly one re-send.
C3_Every429IsResent ==
    [][\A r \in Reqs :
          (req[r].pc = "sleep429" /\ req'[r] # req[r]) =>
              /\ req[r].sleepFor = req[r].retry_after
              /\ Sent(r)]_vars

\* C3 as amended: a 429 within the wait budget on one of the first four sends
\* is waited out for Retry-After seconds and followed by exactly one re-send
\* and nothing else; a 2xx answer to a send ends the request with the decoded
\* body of that very response. (On the fifth send the 429 is waited out and
\* not re-sent.)
C3_429ResentWhileTriesRemain ==
    [][\A r \in Reqs :
          /\ (GotResponse(r) /\ req'[r].status = 429
                /\ req'[r].retry_after <= max_ratelimit_timeout) =>
                 /\ req'[r].pc = "sleep429"
                 /\ req'[r].sleepFor = req'[r].retry_after
                 /\ req'[r].sends = req[r].sends
          /\ (req[r].pc = "sleep429" /\ req'[r] # req[r]) =>
                 IF req[r].sends < RangeTries
                 THEN /\ Sent(r)
                      /\ req'[r].tokenCalls = req[r].tokenCalls
                      /\ req'[r].sleeps = req[r].sleeps
                 ELSE /\ req'[r].pc = "done"
                      /\ req'[r].sends = req[r].sends
          /\ (GotResponse(r) /\ Is2xx(req'[r].status)) =>
                 /\ req'[r].pc = "done"
                 /\ req'[r].outcome = "return"
                 /\ req'[r].result = req'[r].data
                 /\ req'[r].data.body = req[r].sends]_vars

\* A 429 within the budget was waited out for its Retry-After of 1 second and
\* re-sent, and the fourth send of the request was answered 2xx.
C3_Witness ==
    /\ req[1].pc = "done" /\ req[1].outcome = "return"
    /\ req[1].sends = 4 /\ req[1].sleeps = 1 /\ req[1].sleepFor = 1
    /\ req[1].data.body = 4

\* C4: a 429 whose Retry-After is greater than max_ratelimit_timeout raises
\* RateLimited at once, with no sleep and no further send; a Retry-After equal
\* to max_ratelimit_timeout does not raise.
C4_RateLimitedBeyondBudget ==
    [][\A r \in Reqs :
          /\ (GotResponse(r) /\ req'[r].status = 429) =>
                 IF req'[r].retry_after > max_ratelimit_timeout
                 THEN /\ req'[r].pc = "done"
                      /\ req'[r].outcome = "raise"
                      /\ req'[r].exc = "RateLimited"
                      /\ req'[r].sleeps = req[r].sleeps
                      /\ req'[r].sends = req[r].sends
                 ELSE /\ req'[r].outcome = "pending"
                      /\ req'[r].pc = "sleep429"
          /\ Finished(r)]_vars

\* A 429 with Retry-After equal to the budget was waited out, and a later one
\* beyond the budget raised RateLimited.
C4_Witness ==
    /\ req[1].exc = "RateLimited"
    /\ req[1].retry_after = max_ratelimit_timeout + 1
    /\ req[1].sleepFor = max_ratelimit_timeout
    /\ req[1].sleeps = 1

\* C5: a 401 with no refresh token configured raises Unauthorized after that
\* send, with no call to the token endpoint and the held token unchanged.
C5_UnauthorizedWithoutRefreshToken ==
    [][\A r \in Reqs :
          /\ (GotResponse(r) /\ req'[r].status = 401
                /\ _refresh_token \in {None, ""}) =>
                 /\ req'[r].pc = "done"
                 /\ req'[r].outcome = "raise"
                 /\ req'[r].exc = "Unauthorized"
                 /\ req'[r].tokenCalls = 0
                 /\ req'[r].sends = req[r].sends
                 /\ access_token' = access_token
          /\ Finished(r)]_vars

\* Unauthorized was raised on a transport without refresh token, after a 429
\* had been waited out.
C5_Witness ==
    /\ _refresh_token = None
    /\ req[1].exc = "Unauthorized" /\ req[1].status = 401
    /\ req[1].sends = 2 /\ req[1].tokenCalls = 0

\* C6: every logical request ends by returning the decoded body of a 2xx
\* response or by raising a typed failure; never by a normal return without
\* a 2xx response.
C6_ReturnsBodyOrRaises ==
    \A r \in Reqs :
        req[r].pc = "done" =>
            \/ /\ req[r].outcome = "return"
               /\ Is2xx(req[r].status)
               /\ req[r].result = req[r].data
            \/ /\ req[r].outcome = "raise"
               /\ req[r].exc \in TypedFailures

\* C7: 403 ends the request with Forbidden, 404 with NotFound, a 5xx outside
\* {500, 502, 504, 524} with the server error, any other non-2xx status but
\* 401 and 429 with HTTPException; at once: no sleep, no re-send, no call to
\* the token endpoint.
C7_ImmediateFailures ==
    [][\A r \in Reqs :
          /\ (GotResponse(r) /\ ~Is2xx(req'[r].status)
                /\ req'[r].status \notin {401, 429, 500, 502, 504, 524}) =>
                 /\ req'[r].pc = "done"
                 /\ req'[r].outcome = "raise"
                 /\ req'[r].exc =
                        CASE req'[r].status = 403 -> "Forbidden"
                          [] req'[r].status = 404 -> "NotFound"
                          [] req'[r].status >= 500 /\ req'[r].status < 600
                                -> "SpotifyServerError"
                          [] OTHER -> "HTTPException"
                 /\ req'[r].sends = req[r].sends
                 /\ req'[r].sleeps = req[r].sleeps
                 /\ req'[r].tokenCalls = req[r].tokenCalls
          /\ Finished(r)]_vars

\* Forbidden was raised on the third send, after a 429 and a refreshed 401.
C7_Witness ==
    /\ req[1].exc = "Forbidden" /\ req[1].status = 403
    /\ req[1].sends = 3 /\ req[1].sleeps = 1 /\ req[1].tokenCalls = 1

----------------------------------------------------------------------------
(* Properties of Client.add_tracks *)

IsPrefix(s, t) == Len(s) <= Len(t) /\ SubSeq(t, 1, Len(s)) = s

RECURSIVE Concat(_)
Concat(groups) ==
    IF groups = <<>> THEN <<>> ELSE Head(groups) \o Concat(Tail(groups))

CallTracks == [i \in 1..Len(batch.calls) |-> batch.calls[i].tracks]

\* C8: add_tracks issues one transport call per consecutive group of at most
\* 100 tracks, one after another in input order: every group but the last has
\* exactly 100 tracks, and once add_tracks has returned there were
\* ceil(n / 100) calls whose groups concatenate to the input list (none for
\* an empty list).
C8_BatchesOfAtMost100 ==
    LET n == Len(batch.tracks)
        k == Len(batch.calls)
    IN  /\ \A i \in 1..k :
              /\ Len(CallTracks[i]) \in 1..100
              /\ i < k => Len(CallTracks[i]) = 100
              /\ CallTracks[i] = SubSeq(batch.tracks, 100 * (i - 1) + 1,
                                        100 * (i - 1) + Len(CallTracks[i]))
        /\ batch.pc = "await_call" => Len(batch.applied) = k - 1
        /\ batch.pc # "await_call" /\ batch.outcome # "raise" => Len(batch.applied) = k
        /\ (batch.pc = "done" /\ batch.outcome = "return") =>
              /\ k = (n + 99) \div 100
              /\ Concat(CallTracks) = batch.tracks

\* add_tracks has returned for 250 tracks, with calls of 100, 100 and 50.
C8_Witness ==
    /\ batch.pc = "done" /\ batch.outcome = "return"
    /\ Len(batch.tracks) = 250
    /\ Len(batch.calls) = 3
    /\ Len(batch.calls[1].tracks) = 100
    /\ Len(batch.calls[2].tracks) = 100
    /\ Len(batch.calls[3].tracks) = 50

\* C9: when the transport call of group k fails, add_tracks fails at that
\* point: no call is issued for a later group, the groups 1..k-1 are applied
\* and stay applied, and no other call is made.
C9_FailureAbortsWithoutRollback ==
    [][/\ batch'.outcome = "raise" =>
             /\ batch'.pc = "done"
             /\ Len(batch'.calls) = Len(batch'.applied) + 1
             /\ batch'.applied = SubSeq(batch'.calls, 1, Len(batch'.calls) - 1)
       /\ batch.pc = "done" => batch' = batch
       /\ IsPrefix(batch.applied, batch'.applied)
       /\ IsPrefix(batch.calls, batch'.calls)]_vars

\* The call of the third group of 250 tracks failed, the first two applied.
C9_Witness ==
    /\ batch.pc = "done" /\ batch.outcome = "raise"
    /\ Len(batch.tracks) = 250
    /\ Len(batch.calls) = 3
    /\ Len(batch.applied) = 2

----------------------------------------------------------------------------
(* Properties of Playlist.fetch_tracks *)

\* C10: fetch_tracks only appends to the track collection, and after a page
\* has arrived it requests a further page only if that page carries a `next`
\* cursor and the offset plus limit of the pages fetched so far is still
\* below total.
C10_AppendsAndStopsAtTotal ==
    [][/\ IsPrefix(pl.items, pl'.items)
       /\ (pl.pc = "await_page" /\ pl'.requests = pl.requests + 1) =>
             /\ pl'.lastNext # <<>>
             /\ pl'.lastOffset + pl'.lastLimit < pl'.total]_vars

----------------------------------------------------------------------------
(* Properties of closing the transport *)

\* C14: closing is idempotent: a call of Client.close or HTTPClient._close on
\* a transport whose session is already closed leaves every field of the
\* transport as it was, and a call on a transport that has no session leaves
\* it without one; a close never leaves an open session behind and touches
\* nothing but the session.
C14_CloseIsIdempotent ==
    [][closes' = closes + 1 =>
          /\ _session = "closed" => UNCHANGED httpVars
          /\ _session = None => _session' = None
          /\ _session = "open" => _session' = "closed"
          /\ UNCHANGED <<access_token, _refresh_token, _client_id,
                         _client_secret, max_ratelimit_timeout, req>>]_vars

\* A transport that made a request has been closed twice.
C14_Witness ==
    /\ closes = 2
    /\ _session = "closed"
    /\ req[1].pc = "done"

\* A transport that never had a session has been closed.
C14_WitnessNoSession ==
    /\ closes >= 1
    /\ _session = None

----------------------------------------------------------------------------
(* Properties of the failures of HTTPClient.request *)

\* C15: every failure raised by request() for a non-2xx response is an
\* instance of SpotifyException, and the failure raised for a 5xx response is
\* an HTTPException, the class that carries the response status.
C15_FailuresAreSpotifyExceptions ==
    \A r \in Reqs :
        (req[r].pc = "done" /\ req[r].outcome = "raise") =>
            /\ IsInstance(req[r].exc, "SpotifyException")
            /\ req[r].status >= 500 => CarriesStatus(req[r].exc)

----------------------------------------------------------------------------
(* Properties of HTTPClient.__init__ *)

\* How many of the three refresh credentials are given.
Given(rt, cid, cs) ==
    (IF rt # None THEN 1 ELSE 0) + (IF cid # None THEN 1 ELSE 0)
        + (IF cs # None THEN 1 ELSE 0)

\* C19: the refresh credentials of a transport are all configured or all
\* absent, a refresh is attempted only on a transport that has a client id
\* and a client secret, and __init__ fails exactly when one or two of the
\* three are given.
C19_RefreshCredentialsAllOrNone ==
    /\ Given(_refresh_token, _client_id, _client_secret) \in {0, 3}
    /\ \A r \in Reqs :
          req[r].tokenCalls > 0 => (_client_id # None /\ _client_secret # None)
    /\ ctor.pc = "AssertionError" =>
          /\ Given(ctor.refresh_token, ctor.client_id, ctor.client_secret) \in {1, 2}
          /\ \A r \in Reqs : req[r].sends = 0
    /\ ctor.pc = "constructed" =>
          Given(ctor.refresh_token, ctor.client_id, ctor.client_secret) \in {0, 3}

\* A transport constructed with all three credentials has attempted a refresh.
C19_Witness ==
    /\ ctor.pc = "constructed"
    /\ Given(_refresh_token, _client_id, _client_secret) = 3
    /\ req[1].tokenCalls > 0

\* A construction with only a client id has failed.
C19_WitnessPartial ==
    /\ ctor.pc = "AssertionError"
    /\ ctor.client_id # None /\ ctor.refresh_token = None

----------------------------------------------------------------------------
(* Properties of the handling of 500, 502, 504 and 524 *)

\* C20: the sleep after a 500, 502, 504 or 524 on attempt i lasts 1 + 2*i
\* seconds and, while attempts remain, is followed by a re-send that consumes
\* an attempt; the server error is raised for such a status only on the last
\* of the 5 attempts.
C20_RetryableIsResent ==
    [][\A r \in Reqs :
          /\ (req[r].pc = "backoff" /\ req'[r] # req[r]) =>
                /\ req[r].sleepFor = 1 + 2 * req[r].tries
                /\ req[r].tries + 1 < RangeTries =>
                      /\ Sent(r)
                      /\ req'[r].tries = req[r].tries + 1
          /\ (req'[r].pc = "done" /\ req'[r].outcome = "raise"
                /\ req'[r].status \in RetryableStatuses) =>
                req'[r].tries = RangeTries - 1]_vars

----------------------------------------------------------------------------
(* Properties of Scopes *)

\* C11: after a flag of a Scopes value is assigned True, reading that flag
\* gives True; after it is assigned False, reading it gives False; and every
\* other one of the 19 flags reads as it did before the assignment.
C11_SetThenHas ==
    [][scopes'.ops = scopes.ops + 1 =>
          /\ scopes'.before = scopes.a
          /\ GetFlag(scopes'.a, scopes'.name) = scopes'.toggle
          /\ \A other \in Names \ {scopes'.name} :
                GetFlag(scopes'.a, other) = GetFlag(scopes.a, other)]_vars

\* A flag that was set has been assigned False, and the value changed.
C11_Witness ==
    /\ scopes.ops = 1
    /\ scopes.toggle = FALSE
    /\ GetFlag(scopes.before, scopes.name)
    /\ ~GetFlag(scopes.a, scopes.name)
    /\ Cardinality({n \in Names : GetFlag(scopes.a, n)}) = 10

\* A flag that was clear has been assigned False.
C11_WitnessClearAgain ==
    /\ scopes.ops = 1
    /\ scopes.toggle = FALSE
    /\ ~GetFlag(scopes.before, scopes.name)
    /\ scopes.before # 0

\* C12: the union a | b has a flag exactly if a has it or b has it, and
\* computing it changes neither a nor b.
C12_UnionHasIffEitherHas ==
    [][(scopes'.op = "__or__" /\ scopes' # scopes /\ scopes'.ops = scopes.ops) =>
          /\ \A x \in Names :
                GetFlag(scopes'.r[1], x)
                    <=> (GetFlag(scopes.a, x) \/ GetFlag(scopes.b, x))
          /\ scopes'.a = scopes.a
          /\ scopes'.b = scopes.b]_vars

\* The union of two values that share a flag and each have a flag the other
\* lacks.
C12_Witness ==
    /\ scopes.op = "__or__"
    /\ \E x, y, z \in Names :
          /\ GetFlag(scopes.a, x) /\ GetFlag(scopes.b, x)
          /\ GetFlag(scopes.a, y) /\ ~GetFlag(scopes.b, y)
          /\ ~GetFlag(scopes.a, z) /\ GetFlag(scopes.b, z)
          /\ GetFlag(scopes.r[1], x) /\ GetFlag(scopes.r[1], y)
          /\ GetFlag(scopes.r[1], z)

\* The 8 flags that Scopes.default() is to leave false.
WriteScopes ==
    {"ugc_image_upload", "app_remote_control", "user_modify_playback_state",
     "user_follow_modify", "user_library_modify", "playlist_modify_private",
     "playlist_modify_public", "streaming"}

\* C13: Scopes.default() has exactly the 8 write scopes false and the other
\* 11 flags true, and Scopes.all() has all 19 flags true.
C13_DefaultAndAll ==
    /\ scopes.op = "default" =>
          /\ \A n \in Names : GetFlag(scopes.r[1], n) <=> n \notin WriteScopes
          /\ Cardinality({n \in Names : GetFlag(scopes.r[1], n)}) = 11
    /\ scopes.op = "all" =>
          /\ \A n \in Names : GetFlag(scopes.r[1], n)
          /\ Cardinality(Names) = 19

\* Scopes.default() has returned.
C13_Witness ==
    /\ scopes.op = "default"
    /\ ~GetFlag(scopes.r[1], "streaming")
    /\ GetFlag(scopes.r[1], "user_library_read")

\* Scopes.all() has returned.
C13_WitnessAll ==
    /\ scopes.op = "all"
    /\ GetFlag(scopes.r[1], "streaming")

----------------------------------------------------------------------------
(* Properties of Route *)

\* C16: a Route exposes a bucket key equal to its method, a space and its raw
\* path template, so two Routes with the same method and template have the
\* same key whatever their path parameters, and no key holds a parameter value.
C16_KeyIsMethodAndTemplate ==
    \A i \in RouteIds :
        route.key[i].done =>
            /\ route.key[i].exc = None
            /\ route.key[i].value
                  = <<route.objs[i].method, " ">> \o route.objs[i].path
            /\ \A j \in RouteIds :
                  (/\ route.key[j].done
                   /\ route.objs[j].method = route.objs[i].method
                   /\ route.objs[j].path = route.objs[i].path)
                      => route.key[j].value = route.key[i].value

\* The methods the claim allows.
AllowedMethods == {"GET", "POST", "PUT", "DELETE"}

\* C17: a Route exists only for a method in {GET, POST, PUT, DELETE}: the
\* construction with any other method fails with InvalidMethod and produces
\* no Route, and the construction with one of the four succeeds.
C17_InvalidMethodRejected ==
    \A i \in RouteIds :
        /\ route.objs[i].state = "built" => route.objs[i].method \in AllowedMethods
        /\ route.objs[i].state = "failed" =>
              /\ route.objs[i].exc = "InvalidMethod"
              /\ route.objs[i].method \notin AllowedMethods

----------------------------------------------------------------------------
(* Properties of Activity *)

\* C18: the construction of an Activity fails with NotImplementedError, the
\* failure for an unsupported playable type, for every payload whose
\* currently_playing_type is not 'track', and succeeds for 'track'; a 'track'
\* payload without a device gives an Activity whose device is None.
C18_OnlyTracksDecode ==
    activity.pc = "done" =>
        IF activity.data.currently_playing_type = "track"
        THEN /\ activity.exc = None
             /\ activity.currently_playing_type = "track"
             /\ DeviceIsNone(activity.data.device) => activity.device.none
        ELSE activity.exc = "NotImplementedError"

----------------------------------------------------------------------------
(* Properties of the attempt budget of HTTPClient.request *)

\* C21: whatever the responses are, one call of request() makes at most 5
\* sends of the request, and it ends (it returns or raises).
C21_AtMost5SendsThenEnds ==
    /\ [](\A r \in Reqs : req[r].sends <= RangeTries /\ req[r].tries < RangeTries)
    /\ \A r \in Reqs : (req[r].pc # "absent") ~> (req[r].pc = "done")

\* A call has ended after its fifth send.
C21_Witness ==
    /\ req[1].pc = "done"
    /\ req[1].sends = RangeTries
    /\ req[1].tokenCalls > 0
    /\ req[1].sleeps > 0

----------------------------------------------------------------------------
(* Properties of the token refresh *)

\* The step in which the call of refresh_token() made by request r ends.
RefreshEnds(r) == req[r].pc = "refreshing" /\ req'[r] # req[r]

\* C23: when the refresh attempted after a 401 fails, request() raises
\* Unauthorized for that 401 response: the exception of refresh_token() does
\* not reach the caller, and the request is not sent again.
C23_RefreshFailureAbsorbed ==
    [][\A r \in Reqs :
          (RefreshEnds(r) /\ req'[r].refreshExc # None) =>
              /\ req'[r].pc = "done" /\ req'[r].outcome = "raise"
              /\ req'[r].exc = "Unauthorized"
              /\ req'[r].exc # req'[r].refreshExc
              /\ req'[r].status = 401
              /\ req'[r].data = req[r].data
              /\ req'[r].sends = req[r].sends]_vars

\* The refresh after the 401 of a first send failed on a failure status of
\* the token endpoint.
C23_Witness ==
    /\ req[1].pc = "done"
    /\ req[1].refreshExc = "ClientResponseError"
    /\ req[1].tokenCalls = 1
    /\ req[1].sends = 1

\* C24: refresh_token() sets the held access token to the token of a
\* successful answer; on a failure status or an answer without an access
\* token it raises and leaves the held access token as it was.
C24_RefreshReplacesOrKeepsToken ==
    [][\A r \in Reqs :
          RefreshEnds(r) =>
              LET answer == req'[r].tokenAnswer
              IN  IF answer.ok /\ answer.has_token
                  THEN /\ req'[r].refreshExc = None
                       /\ access_token' = answer.access_token
                  ELSE /\ req'[r].refreshExc # None
                       /\ access_token' = access_token]_vars

\* A refresh has replaced the held token by another one.
C24_Witness ==
    /\ req[1].refreshExc = None
    /\ req[1].tokenCalls = 1
    /\ req[1].tokenAnswer.has_token
    /\ access_token = req[1].tokenAnswer.access_token
    /\ req[1].headers # access_token

\* A refresh has failed for lack of an access token in the answer.
C24_WitnessKept ==
    /\ req[1].refreshExc = "KeyError"
    /\ access_token = req[1].headers

----------------------------------------------------------------------------
(* Properties of concurrent requests on one transport *)

\* The token the transport was constructed with and the tokens that
\* successful answers of the token endpoint have carried so far.
SuppliedOrIssued == {ctor.access_token} \cup UNION {req[r].tokensGot : r \in Reqs}

\* C25: with several requests in flight, cancellations included, the held
\* access token is always the token supplied at construction or one that a
\* successful token-endpoint call returned, and so is every token a request
\* reads from the transport for a send.
C25_HeldTokenSuppliedOrIssued ==
    /\ access_token \in SuppliedOrIssued
    /\ \A r \in Reqs :
          req[r].sends > 0 =>
              /\ req[r].heldAtSend \in SuppliedOrIssued
              /\ req[r].sentAuth \in SuppliedOrIssued

\* One request was cancelled inside its refresh, the refresh of the other
\* one failed, and a refresh before that had replaced the token.
C25_Witness ==
    /\ req[1].pc = "done" /\ req[1].exc = "CancelledError" /\ req[1].status = 401
    /\ req[2].pc = "done" /\ req[2].refreshExc # None
    /\ req[2].tokensGot # {}
    /\ access_token # ctor.access_token


\* Request r is in its rate-limit wait or in its backoff wait.
Waiting(r) == req[r].pc \in {"sleep429", "backoff"}

C26_WitnessBackoff ==
    /\ req[1].pc = "backoff"
    /\ req[2].pc = "await_resp"

\* C27: every 401 of a request on a transport with refresh credentials
\* starts a token-endpoint call of that request's own, also while a call of
\* another request is outstanding, and each successful call stores its token:
\* the held token is that of the call that ended last.
C27_NoSingleFlight ==
    [][\A r \in InFlight :
          /\ (GotResponse(r) /\ req'[r].status = 401) =>
                /\ req'[r].pc = "refreshing"
                /\ req'[r].tokenCalls = req[r].tokenCalls + 1
          /\ (RefreshEnds(r) /\ req'[r].refreshExc = None
                /\ req'[r].exc # "CancelledError") =>
                access_token' = req'[r].tokenAnswer.access_token]_vars

\* Two token-endpoint calls are outstanding at the same time.
C27_Witness ==
    /\ req[1].pc = "refreshing"
    /\ req[2].pc = "refreshing"

\* Both calls have ended successfully with different tokens.
C27_WitnessBothEnded ==
    /\ req[1].tokensGot # {} /\ req[2].tokensGot # {}
    /\ req[1].tokensGot # req[2].tokensGot
    /\ req[1].tokenCalls = 1 /\ req[2].tokenCalls = 1

----------------------------------------------------------------------------
(* Properties of Image *)

\* C28: the decoded Image has the height, the width and the url of its
\* payload.
C28_ImageKeepsPayload ==
    image.pc = "done" =>
        /\ image.height = image.data.height
        /\ image.width = image.data.width
        /\ image.url = image.data.url

----------------------------------------------------------------------------
(* Properties of repeated calls of Playlist.fetch_tracks *)

\* fetch_tracks has been called and has returned.
Completed(p) == p.pc = "idle" /\ p.calls >= 1 /\ p.outcome = "return"

\* C29: once fetch_tracks has returned, a further call makes no page request
\* and leaves the track collection as it is; the collection never holds an
\* item twice and never holds more than total items.
C29_FetchTracksIdempotent ==
    [][/\ Completed(pl) =>
             /\ pl'.requests = pl.requests
             /\ pl'.items = pl.items
       /\ \A i, j \in 1..Len(pl'.items) : i # j => pl'.items[i] # pl'.items[j]
       /\ Len(pl'.items) <= pl'.total]_vars

----------------------------------------------------------------------------
(* Properties of the arguments of the batch calls of Client.add_tracks *)

\* C30: every batch call of add_tracks gets the playlist and the position
\* the caller supplied: the position is the same in all calls, whatever the
\* number of tracks sent before.
C30_SamePositionInEveryBatch ==
    \A i \in 1..Len(batch.calls) :
        /\ batch.calls[i].position = batch.position
        /\ batch.calls[i].playlist = batch.playlist
        /\ \A j \in 1..Len(batch.calls) :
              /\ batch.calls[j].position = batch.calls[i].position
              /\ batch.calls[j].playlist = batch.calls[i].playlist

\* 250 tracks were added at position 7 in three calls.
C30_Witness ==
    /\ batch.pc = "done" /\ batch.outcome = "return"
    /\ batch.position = <<7>>
    /\ Len(batch.tracks) = 250
    /\ Len(batch.calls) = 3
    /\ batch.calls[3].position = <<7>>

====
